---- MODULE Spec2Model ----
(***************************************************************************)
(* Transform stage of the weather data pipeline (src/src/transformation.py) *)
(* with its ingestion (src/src/ingestion.py) and storage                   *)
(* (src/src/dashboard.py) collaborators.                                   *)
(*                                                                         *)
(* Python values are tagged records:                                       *)
(*   None            [t |-> "null"]                                        *)
(*   int n           [t |-> "int",   v |-> n]                              *)
(*   float x         [t |-> "float", v |-> x in thousandths]               *)
(*   bool b          [t |-> "bool",  b |-> b]                              *)
(*   str s           [t |-> "str",   s |-> s]                              *)
(*   dict d          [t |-> "dict",  d |-> function from keys to values]   *)
(*   list l          [t |-> "list",  l |-> sequence of values]             *)
(* A raised exception is the value Exc; it propagates through every        *)
(* operator that receives it, as a Python exception unwinds an expression. *)
(* A DataFrame is a sequence of rows, a row a function from column names   *)
(* to values; the column dtype of a one-row frame is the type of its cell. *)
(* The repository pins no pandas release, and Series.round on an object    *)
(* column (one holding None or a str) differs between releases: it raises  *)
(* TypeError where it rounds the underlying array or rejects object dtype, *)
(* and returns the column unchanged where it goes through the block        *)
(* manager.  The installed behaviour is the variable round_raises.         *)
(***************************************************************************)
EXTENDS Integers, Sequences, FiniteSets, TLC

VARIABLES raw_data_list, idx, all_dataframes, result, pc, now, ticks,
          df_in, df_arg, df, log, calls, round_raises,
          report, enhanced, response, ret, connection, table, pending,
          commits

vars == <<raw_data_list, idx, all_dataframes, result, pc, now, ticks,
          df_in, df_arg, df, log, calls, round_raises,
          report, enhanced, response, ret, connection, table, pending,
          commits>>

\* the state of the ingestion and storage collaborators
fetchVars == <<response, ret>>
dbVars == <<connection, table, pending, commits>>

batchVars == <<raw_data_list, idx, all_dataframes, result, now, ticks,
               round_raises>>

(* ---------------------------- bounds ----------------------------------- *)
MaxBatch == 3
MaxTicks == 1
MaxCalls == 2
MaxRows == 2

(* ---------------------------- values ----------------------------------- *)
None == [t |-> "null"]
Exc == [t |-> "exc"]
PyInt(n) == [t |-> "int", v |-> n]
PyFloat(m) == [t |-> "float", v |-> m]
PyBool(b) == [t |-> "bool", b |-> b]
PyStr(s) == [t |-> "str", s |-> s]
PyDict(d) == [t |-> "dict", d |-> d]
PyList(l) == [t |-> "list", l |-> l]

EmptyDict == PyDict([k \in {} |-> None])

IsExc(x) == x.t = "exc"
IsNumber(x) == x.t \in {"int", "float"}

\* the numeric value of an int or float cell, in thousandths
Milli(x) == IF x.t = "int" THEN x.v * 1000 ELSE x.v

\* dict.get(key, default); anything that is not a dict has no .get
Get(obj, key, default) ==
    IF obj.t = "dict"
    THEN IF key \in DOMAIN obj.d THEN obj.d[key] ELSE default
    ELSE Exc

\* obj[0]: IndexError on an empty list, KeyError on a dict, TypeError on
\* None and numbers; a str yields a str (which then has no .get)
Index0(obj) ==
    IF obj.t = "list"
    THEN IF Len(obj.l) > 0 THEN obj.l[1] ELSE Exc
    ELSE IF obj.t = "str" /\ obj.s # "" THEN PyStr("c")
    ELSE Exc

\* pandas notna(): None is missing, every other cell is not
NotNa(x) == x.t # "null"

(* ------------------------ validate_and_clean --------------------------- *)
\* A DataFrame value; rows is a non-empty sequence of rows
PyFrame(rows) == [t |-> "frame", rows |-> rows]

\* df.columns of a non-empty frame (given as its rows)
Columns(frame) == DOMAIN frame[1]

\* df[col] = scalar: assigns the whole column, creating it when missing
SetColumn(frame, col, val) ==
    [r \in 1..Len(frame) |->
       [c \in Columns(frame) \cup {col} |->
          IF c = col THEN val ELSE frame[r][c]]]

\* scalar comparison  cell < n  /  cell > n  (n in whole units); str, dict
\* and list cells raise TypeError
Comparable(x) == x.t \in {"int", "float", "bool", "null"}
CellMilli(x) == IF x.t = "bool" THEN (IF x.b THEN 1000 ELSE 0) ELSE Milli(x)
Lt(x, n) == x.t # "null" /\ CellMilli(x) < n * 1000
Gt(x, n) == x.t # "null" /\ CellMilli(x) > n * 1000

\* df[col].notna().any()
AnyNotNa(frame, col) == \E r \in 1..Len(frame) : NotNa(frame[r][col])

\* the scalar written into a column keeps the column's dtype
Like(x, n) == IF x.t = "float" THEN PyFloat(n * 1000) ELSE PyInt(n)

\* round(2) of a value in thousandths: to the nearest hundredth.  A decimal
\* tie (last digit 5) is resolved in the code by the binary value of the
\* float; here it goes to the even hundredth, and no input is a tie.
Round2(m) ==
    LET q == m \div 10
        r == m % 10
    IN  IF r < 5 THEN q * 10
        ELSE IF r > 5 THEN (q + 1) * 10
        ELSE IF q % 2 = 0 THEN q * 10 ELSE (q + 1) * 10

\* Series.round(2) on one cell: only a float cell changes
RoundCell(x) == IF x.t = "float" THEN PyFloat(Round2(x.v)) ELSE x

decimal_columns == {"temperature", "feels_like", "temp_min", "temp_max",
                    "wind_speed", "latitude", "longitude"}

\* faulty variant: the out-of-range temperature is clamped to the nearest bound
CheckTemperatureClamps(st) ==
    IF st.exc \/ "temperature" \notin Columns(st.df) THEN [st EXCEPT !.exc = TRUE]
    ELSE LET temp == st.df[1]["temperature"]
         IN  IF ~Comparable(temp) THEN [st EXCEPT !.exc = TRUE]
             ELSE IF Lt(temp, -50) \/ Gt(temp, 60)
             THEN [st EXCEPT
                     !.log = Append(@, "temperature"),
                     !.df = SetColumn(
                               SetColumn(st.df, "is_valid", PyBool(FALSE)),
                               "temperature",
                               Like(temp, IF Lt(temp, -50) THEN -50 ELSE 60))]
             ELSE st

\* faulty variant: the bounds -50 and 60 themselves count as out of range
CheckTemperatureInclusive(st) ==
    IF st.exc \/ "temperature" \notin Columns(st.df) THEN [st EXCEPT !.exc = TRUE]
    ELSE LET temp == st.df[1]["temperature"]
         IN  IF ~Comparable(temp) THEN [st EXCEPT !.exc = TRUE]
             ELSE IF NotNa(temp) /\ (~Gt(temp, -50) \/ ~Lt(temp, 60))
             THEN [st EXCEPT
                     !.log = Append(@, "temperature"),
                     !.df = SetColumn(st.df, "is_valid", PyBool(FALSE))]
             ELSE st

\* faulty variant: is_valid is assigned the outcome of the range check, so that an
\* in-range temperature sets it back to true
CheckTemperatureAssigns(st) ==
    IF st.exc \/ "temperature" \notin Columns(st.df) THEN [st EXCEPT !.exc = TRUE]
    ELSE LET temp == st.df[1]["temperature"]
         IN  IF ~Comparable(temp) THEN [st EXCEPT !.exc = TRUE]
             ELSE IF ~NotNa(temp) THEN st
             ELSE IF Lt(temp, -50) \/ Gt(temp, 60)
             THEN [st EXCEPT
                     !.log = Append(@, "temperature"),
                     !.df = SetColumn(st.df, "is_valid", PyBool(FALSE))]
             ELSE [st EXCEPT
                     !.df = SetColumn(st.df, "is_valid", PyBool(TRUE))]

\* faulty variant: without the copy the assignments reach the caller's frame
ArgumentAfterValidateAliased(original, mine) ==
    IF IsExc(mine) THEN original ELSE mine

\* line 109: df = df.copy() rebinds the name to a frame of the function's
\* own; what the caller's frame object holds after the call, given what it
\* held before and the frame the function ended with
ArgumentAfterValidate(original, mine) == original

\* rule 1: temperature range check (flags, never alters the value)
CheckTemperature(st) ==
    IF st.exc THEN st
    ELSE IF "temperature" \notin Columns(st.df) THEN [st EXCEPT !.exc = TRUE]
    ELSE IF ~AnyNotNa(st.df, "temperature") THEN st
    ELSE LET temp == st.df[1]["temperature"]
         IN  IF ~Comparable(temp) THEN [st EXCEPT !.exc = TRUE]
             ELSE IF Lt(temp, -50) \/ Gt(temp, 60)
             THEN [st EXCEPT
                     !.log = Append(@, "temperature"),
                     !.df = SetColumn(st.df, "is_valid", PyBool(FALSE))]
             ELSE st

\* faulty variant: only the lower bound is enforced
ClampHumidityCellLowOnly(x) == IF Lt(x, 0) THEN Like(x, 0) ELSE x

\* rule 2: humidity clamped to [0, 100]
ClampHumidityCell(x) ==
    IF Lt(x, 0) THEN Like(x, 0)
    ELSE IF Gt(x, 100) THEN Like(x, 100)
    ELSE x

CheckHumidity(st) ==
    IF st.exc THEN st
    ELSE IF "humidity" \notin Columns(st.df) THEN [st EXCEPT !.exc = TRUE]
    ELSE IF ~AnyNotNa(st.df, "humidity") THEN st
    ELSE LET humidity == st.df[1]["humidity"]
         IN  IF ~Comparable(humidity) THEN [st EXCEPT !.exc = TRUE]
             ELSE IF Lt(humidity, 0) \/ Gt(humidity, 100)
             THEN [st EXCEPT
                     !.log = Append(@, "humidity"),
                     !.df = [r \in 1..Len(st.df) |->
                               [st.df[r] EXCEPT !["humidity"] =
                                   ClampHumidityCell(@)]]]
             ELSE st

\* faulty variant: the out-of-range pressure is clamped like humidity
CheckPressureClamps(st) ==
    IF st.exc \/ "pressure" \notin Columns(st.df) THEN [st EXCEPT !.exc = TRUE]
    ELSE LET pressure == st.df[1]["pressure"]
         IN  IF ~Comparable(pressure) THEN [st EXCEPT !.exc = TRUE]
             ELSE IF Lt(pressure, 900) \/ Gt(pressure, 1100)
             THEN [st EXCEPT
                     !.log = Append(@, "pressure"),
                     !.df = SetColumn(st.df, "pressure",
                               Like(pressure,
                                    IF Lt(pressure, 900) THEN 900 ELSE 1100))]
             ELSE st

\* rule 3: pressure, warning only
CheckPressure(st) ==
    IF st.exc THEN st
    ELSE IF "pressure" \notin Columns(st.df) THEN [st EXCEPT !.exc = TRUE]
    ELSE IF ~AnyNotNa(st.df, "pressure") THEN st
    ELSE LET pressure == st.df[1]["pressure"]
         IN  IF ~Comparable(pressure) THEN [st EXCEPT !.exc = TRUE]
             ELSE IF Lt(pressure, 900) \/ Gt(pressure, 1100)
             THEN [st EXCEPT !.log = Append(@, "pressure")]
             ELSE st

\* faulty variant: the negative wind speed is reported but not replaced
CheckWindSpeedWarnOnly(st) ==
    IF st.exc \/ "wind_speed" \notin Columns(st.df) THEN [st EXCEPT !.exc = TRUE]
    ELSE LET wind == st.df[1]["wind_speed"]
         IN  IF ~Comparable(wind) THEN [st EXCEPT !.exc = TRUE]
             ELSE IF Lt(wind, 0)
             THEN [st EXCEPT !.log = Append(@, "wind_speed")]
             ELSE st

\* rule 4: negative wind speed set to 0 (the whole column is assigned)
CheckWindSpeed(st) ==
    IF st.exc THEN st
    ELSE IF "wind_speed" \notin Columns(st.df) THEN [st EXCEPT !.exc = TRUE]
    ELSE IF ~AnyNotNa(st.df, "wind_speed") THEN st
    ELSE LET wind == st.df[1]["wind_speed"]
         IN  IF ~Comparable(wind) THEN [st EXCEPT !.exc = TRUE]
             ELSE IF Lt(wind, 0)
             THEN [st EXCEPT
                     !.log = Append(@, "wind_speed"),
                     !.df = SetColumn(st.df, "wind_speed", PyInt(0))]
             ELSE st

\* a one-row column has object dtype when its cell is None, a str, a dict
\* or a list
ObjectDtype(x) == x.t \notin {"int", "float", "bool"}

\* rule 5: the decimal columns that exist are rounded to 2 places
RoundDecimals(st) ==
    IF st.exc THEN st
    ELSE IF round_raises
            /\ \E c \in decimal_columns \cap Columns(st.df) :
                  \E r \in 1..Len(st.df) : ObjectDtype(st.df[r][c])
    THEN [st EXCEPT !.exc = TRUE]
    ELSE [st EXCEPT !.df =
            [r \in 1..Len(st.df) |->
               [c \in Columns(st.df) |->
                  IF c \in decimal_columns THEN RoundCell(st.df[r][c])
                  ELSE st.df[r][c]]]]

\* validate_and_clean(df): the returned frame, the warnings it logged, and
\* whether it raised instead of returning; the argument is never written to
validate_and_clean(frame) ==
    LET st == RoundDecimals(CheckWindSpeed(CheckPressure(CheckHumidity(
                 CheckTemperature([df |-> frame.rows, log |-> <<>>,
                                   exc |-> FALSE])))))
    IN  [df |-> IF st.exc THEN Exc ELSE PyFrame(st.df), log |-> st.log]

(* ---------------------- transform_weather_data ------------------------- *)
\* datetime.now(): the clock reading, in hours since an epoch
PyDatetime(h) == [t |-> "datetime", h |-> h]

\* the dict literal of lines 39-82
Extract(raw_data, ts) ==
    [timestamp |-> PyDatetime(ts),
     city |-> Get(raw_data, "name", PyStr("Unknown")),
     country_code |-> Get(Get(raw_data, "sys", EmptyDict), "country", None),
     latitude |-> Get(Get(raw_data, "coord", EmptyDict), "lat", None),
     longitude |-> Get(Get(raw_data, "coord", EmptyDict), "lon", None),
     temperature |-> Get(Get(raw_data, "main", EmptyDict), "temp", None),
     feels_like |-> Get(Get(raw_data, "main", EmptyDict), "feels_like", None),
     temp_min |-> Get(Get(raw_data, "main", EmptyDict), "temp_min", None),
     temp_max |-> Get(Get(raw_data, "main", EmptyDict), "temp_max", None),
     pressure |-> Get(Get(raw_data, "main", EmptyDict), "pressure", None),
     humidity |-> Get(Get(raw_data, "main", EmptyDict), "humidity", None),
     weather_main |->
         Get(Index0(Get(raw_data, "weather", PyList(<<EmptyDict>>))),
             "main", None),
     weather_description |->
         Get(Index0(Get(raw_data, "weather", PyList(<<EmptyDict>>))),
             "description", None),
     weather_icon |->
         Get(Index0(Get(raw_data, "weather", PyList(<<EmptyDict>>))),
             "icon", None),
     wind_speed |-> Get(Get(raw_data, "wind", EmptyDict), "speed", None),
     wind_direction |-> Get(Get(raw_data, "wind", EmptyDict), "deg", None),
     cloudiness |-> Get(Get(raw_data, "clouds", EmptyDict), "all", None),
     visibility |-> Get(raw_data, "visibility", None),
     api_timestamp |-> Get(raw_data, "dt", None),
     timezone_offset |-> Get(raw_data, "timezone", None),
     data_source |-> PyStr("OpenWeatherMap"),
     is_valid |-> PyBool(TRUE)]

\* faulty variant: without the except clause an exception reaches the caller
transform_weather_dataUncaught(raw_data, ts) ==
    LET transformed == Extract(raw_data, ts)
    IN  IF \E f \in DOMAIN transformed : IsExc(transformed[f])
        THEN [df |-> Exc, log |-> <<>>]
        ELSE validate_and_clean(PyFrame(<<transformed>>))

\* transform_weather_data(raw_data) called at clock reading ts: the frame
\* returned (None after any exception) and the warnings and errors logged
transform_weather_data(raw_data, ts) ==
    LET transformed == Extract(raw_data, ts)
    IN  IF \E f \in DOMAIN transformed : IsExc(transformed[f])
        THEN [df |-> None, log |-> <<"error">>]
        ELSE LET v == validate_and_clean(PyFrame(<<transformed>>))
             IN  IF IsExc(v.df)
                 THEN [df |-> None, log |-> Append(v.log, "error")]
                 ELSE v

(* ------------------------------ inputs --------------------------------- *)
Without(obj, ks) == PyDict([k \in DOMAIN obj.d \ ks |-> obj.d[k]])
With(obj, key, val) ==
    PyDict([k \in DOMAIN obj.d \cup {key} |-> IF k = key THEN val ELSE obj.d[k]])

\* the API response of the tests and of the module's self-test
SampleWeather0 ==
    PyDict([id |-> PyInt(804), main |-> PyStr("Clouds"),
            description |-> PyStr("overcast clouds"), icon |-> PyStr("04d")])

sample_data ==
    PyDict([coord |-> PyDict([lon |-> PyFloat(-79420), lat |-> PyFloat(43700)]),
            weather |-> PyList(<<SampleWeather0>>),
            main |-> PyDict([temp |-> PyFloat(7200),
                             feels_like |-> PyFloat(4300),
                             temp_min |-> PyFloat(5800),
                             temp_max |-> PyFloat(8900),
                             pressure |-> PyInt(1013),
                             humidity |-> PyInt(75)]),
            wind |-> PyDict([speed |-> PyFloat(4500), deg |-> PyInt(250)]),
            clouds |-> PyDict([all |-> PyInt(90)]),
            visibility |-> PyInt(10000),
            dt |-> PyInt(1705776000),
            sys |-> PyDict([country |-> PyStr("CA")]),
            timezone |-> PyInt(-18000),
            name |-> PyStr("Toronto")])

TopKeys == {"name", "sys", "coord", "main", "weather", "wind", "clouds",
            "visibility", "dt", "timezone"}
ParentKeys == {"sys", "coord", "main", "wind", "clouds"}

\* observations with any subset of the top-level keys absent
RawTopAbsent == {Without(sample_data, ks) : ks \in SUBSET TopKeys}

\* observations with any subset of the keys of one nested container absent
RawNestedAbsent ==
    UNION {{With(sample_data, p, Without(sample_data.d[p], ks)) :
              ks \in SUBSET DOMAIN sample_data.d[p].d} : p \in ParentKeys}
    \cup {With(sample_data, "weather", PyList(<<Without(SampleWeather0, ks)>>)) :
              ks \in SUBSET DOMAIN SampleWeather0.d}

\* values a measurement key can hold: null, a non-numeric string, ints and
\* floats on, next to and far from the validation bounds
TempValues == {None, PyStr("n/a"), PyInt(-50), PyInt(60), PyInt(61),
               PyFloat(-50010), PyFloat(-50004), PyFloat(7204), PyFloat(60000),
               PyFloat(60004), PyFloat(100000), PyFloat(100456)}
HumidityValues == {None, PyStr("n/a"), PyInt(-5), PyInt(0), PyInt(75),
                   PyInt(100), PyInt(150), PyFloat(-1), PyFloat(100400)}
PressureValues == {None, PyStr("n/a"), PyInt(850), PyInt(900), PyInt(1013),
                   PyInt(1100), PyInt(1200)}
WindValues == {None, PyStr("n/a"), PyFloat(-3000), PyFloat(-4), PyInt(0),
               PyFloat(4), PyFloat(4567)}

RawMeasured(temp, humidity, pressure, wind) ==
    With(With(sample_data, "main",
              With(With(With(sample_data.d["main"], "temp", temp),
                        "humidity", humidity), "pressure", pressure)),
         "wind", With(sample_data.d["wind"], "speed", wind))

RawValues ==
    {RawMeasured(t, h, p, w) :
        t \in TempValues, h \in HumidityValues, p \in PressureValues,
        w \in WindValues}

\* a parent container that is null or not a mapping; a weather entry that
\* is an empty list, a list of several conditions, or not a list
RawBadParent ==
    {With(sample_data, p, v) :
        p \in ParentKeys, v \in {None, PyStr("x"), PyList(<<>>), PyInt(0)}}
RawWeatherShapes ==
    {With(sample_data, "weather", v) :
        v \in {PyList(<<>>), PyList(<<EmptyDict>>), None, PyStr("Clouds"),
               PyList(<<None>>), SampleWeather0,
               PyList(<<With(SampleWeather0, "main", PyStr("Rain")),
                        SampleWeather0>>)}}

\* payloads that are not a mapping at all
RawNotMapping == {None, PyStr("malformed"), PyList(<<>>), PyInt(404)}

RawObservations ==
    RawTopAbsent \cup RawNestedAbsent \cup RawValues \cup RawBadParent
    \cup RawWeatherShapes \cup RawNotMapping

\* the observations batches are made of: three cities (config.py
\* CITIES_TO_TRACK), one of them with an empty weather list, and a
\* malformed payload
BatchItems ==
    {sample_data,
     With(RawMeasured(PyFloat(100456), PyInt(150), PyInt(1013), PyFloat(-3000)),
          "name", PyStr("Montreal")),
     With(With(sample_data, "weather", PyList(<<>>)), "name", PyStr("Vancouver")),
     None}

RECURSIVE SeqsUpTo(_, _)
SeqsUpTo(S, n) ==
    IF n = 0 THEN {<<>>}
    ELSE LET shorter == SeqsUpTo(S, n - 1)
         IN  shorter \cup {Append(q, x) : q \in {z \in shorter : Len(z) = n - 1},
                                          x \in S}

StartHours == {6, 23}

\* observations for the derived fields: temperatures on, next to and far
\* from the category boundaries, and every condition of the severity
\* table next to one that is not in it and to a missing one
DerivedTemps == {None, PyFloat(-5300), PyFloat(-10), PyInt(0), PyFloat(10),
                 PyFloat(9990), PyInt(10), PyFloat(10000), PyFloat(10010),
                 PyInt(20), PyFloat(20010), PyFloat(30000), PyFloat(30010),
                 PyFloat(45500)}
DerivedConditions == {"Clear", "Clouds", "Rain", "Drizzle", "Thunderstorm",
                      "Snow", "Mist", "Fog", "Haze", "clear"}
DerivedObservations ==
    {With(sample_data, "main", With(sample_data.d["main"], "temp", t)) :
        t \in DerivedTemps}
    \cup {With(sample_data, "weather",
               PyList(<<With(SampleWeather0, "main", PyStr(c))>>)) :
              c \in DerivedConditions}
    \cup {With(sample_data, "weather", PyList(<<EmptyDict>>)),
          Without(sample_data, {"weather"})}
HoursOfDay == 0..23

\* frames handed to validate_and_clean directly, as the unit tests do: a
\* full 22-column record and the 7-column record of tests/test_pipeline.py,
\* over the measurement values, with is_valid already true or already false
TestColumns == {"timestamp", "city", "temperature", "humidity", "pressure",
                "wind_speed", "is_valid"}

FullRecords ==
    {[Extract(RawMeasured(t, h, p, w), 6) EXCEPT !.is_valid = PyBool(v)] :
        t \in TempValues, h \in HumidityValues,
        p \in {None, PyInt(850), PyInt(1013), PyInt(1200)},
        w \in WindValues \ {PyFloat(4)}, v \in BOOLEAN}

\* records whose other decimal columns carry more than 2 decimals
UnroundedRecords ==
    {[Extract(sample_data, 6) EXCEPT
         !.feels_like = PyFloat(4306), !.temp_min = PyFloat(-1),
         !.temp_max = PyFloat(8999), !.latitude = PyFloat(43706),
         !.longitude = PyFloat(-79424), !.wind_speed = w,
         !.temperature = t] :
        t \in TempValues, w \in WindValues}

ValidateFrames ==
    {PyFrame(<<r>>) : r \in FullRecords \cup UnroundedRecords}
    \cup {PyFrame(<<[c \in TestColumns |-> r[c]]>>) :
             r \in {x \in FullRecords : x.pressure = PyInt(1013)}}

(* ----------------------- transform_multiple_cities --------------------- *)
\* faulty variant: the frames are combined last first
RECURSIVE ConcatReversed(_)
ConcatReversed(frames) ==
    IF Len(frames) = 0 THEN <<>>
    ELSE ConcatReversed(Tail(frames)) \o frames[1].rows

\* pd.concat(all_dataframes, ignore_index=True): the rows in list order
RECURSIVE Concat(_)
Concat(frames) ==
    IF Len(frames) = 0 THEN <<>>
    ELSE frames[1].rows \o Concat(Tail(frames))

\* faulty variant: a single collected frame counts as no data
HasDataSeveral(frames) == Len(frames) > 1

\* line 167: if all_dataframes: a list is true when it is not empty
HasData(frames) == Len(frames) > 0

(* ------------------------ add_calculated_fields ------------------------ *)
\* line 186: df = df.copy() rebinds the name to a frame of the function's
\* own; what the caller's frame object holds after the call, given what it
\* held before and the frame the function ended with
ArgumentAfterEnhance(original, mine) == original

\* the dtype of a column is object when a cell is a str, dict or list, or
\* when every cell is None; a None among numbers became NaN in a float
\* column when pd.concat combined the one-row frames
ObjectColumn(frame, col) ==
    \/ \E r \in 1..Len(frame) : ~Comparable(frame[r][col])
    \/ \A r \in 1..Len(frame) : frame[r][col].t = "null"

\* a - b on two cells: a missing operand gives a missing result, an int
\* result only comes from two ints, a str operand raises TypeError
Sub(a, b) ==
    IF ~Comparable(a) \/ ~Comparable(b) THEN Exc
    ELSE IF a.t = "null" \/ b.t = "null" THEN None
    ELSE IF a.t = "float" \/ b.t = "float"
    THEN PyFloat(CellMilli(a) - CellMilli(b))
    ELSE PyInt((CellMilli(a) - CellMilli(b)) \div 1000)

\* (df[a] - df[b]).round(2) as a column (a list of cells), or Exc: an
\* object operand gives an object result, which Series.round rejects on
\* the builds where it rejects object columns
DiffRounded(frame, a, b) ==
    LET diff == [r \in 1..Len(frame) |-> Sub(frame[r][a], frame[r][b])]
    IN  IF \E r \in 1..Len(frame) : IsExc(diff[r]) THEN Exc
        ELSE IF round_raises
                /\ (ObjectColumn(frame, a) \/ ObjectColumn(frame, b))
        THEN Exc
        ELSE PyList([r \in 1..Len(frame) |-> RoundCell(diff[r])])

\* the edges of pd.cut bins: numbers in whole units, -inf and inf
Edge(n) == [k |-> "num", v |-> n]
NegInf == [k |-> "-inf"]
PosInf == [k |-> "inf"]
EdgeBelow(e, m) == e.k = "-inf" \/ (e.k = "num" /\ e.v * 1000 < m)
EdgeAtLeast(e, m) == e.k = "inf" \/ (e.k = "num" /\ m <= e.v * 1000)
EdgeAtMost(e, m) == e.k = "-inf" \/ (e.k = "num" /\ e.v * 1000 <= m)
EdgeAbove(e, m) == e.k = "inf" \/ (e.k = "num" /\ m < e.v * 1000)

\* faulty variant: the buckets are closed on the left (right=False)
CutLeftClosed(x, bins, labels) ==
    IF x.t = "null" THEN None
    ELSE LET m == CellMilli(x)
             hits == {i \in 1..Len(labels) :
                         EdgeAtMost(bins[i], m) /\ EdgeAbove(bins[i + 1], m)}
         IN  IF hits = {} THEN None
             ELSE PyStr(labels[CHOOSE i \in hits : TRUE])

\* pd.cut on one cell of a numeric column: the label of the bucket
\* (bins[i], bins[i+1]] holding the value; missing for a missing value and
\* for a value in no bucket
Cut(x, bins, labels) ==
    IF x.t = "null" THEN None
    ELSE LET m == CellMilli(x)
             hits == {i \in 1..Len(labels) :
                         EdgeBelow(bins[i], m) /\ EdgeAtLeast(bins[i + 1], m)}
         IN  IF hits = {} THEN None
             ELSE PyStr(labels[CHOOSE i \in hits : TRUE])

\* pd.cut on a column, or Exc: on an object column the search of the bins
\* compares a float with None or a str and raises TypeError
CutColumn(frame, col, bins, labels) ==
    IF ObjectColumn(frame, col) THEN Exc
    ELSE PyList([r \in 1..Len(frame) |-> Cut(frame[r][col], bins, labels)])

\* lines 197-202
temp_category_bins == <<NegInf, Edge(0), Edge(10), Edge(20), Edge(30), PosInf>>
temp_category_labels == <<"Freezing", "Cold", "Mild", "Warm", "Hot">>

\* faulty variant: Drizzle is rated like Rain
severity_mapDrizzlePoor ==
    [Clear |-> "Good", Clouds |-> "Fair", Rain |-> "Poor", Drizzle |-> "Poor",
     Thunderstorm |-> "Severe", Snow |-> "Poor", Mist |-> "Fair", Fog |-> "Poor"]

\* lines 205-214
severity_map ==
    [Clear |-> "Good", Clouds |-> "Fair", Rain |-> "Poor", Drizzle |-> "Fair",
     Thunderstorm |-> "Severe", Snow |-> "Poor", Mist |-> "Fair", Fog |-> "Poor"]

\* Series.map(dict) on one cell: a value that is no key of the dict, None
\* included, maps to missing; an unhashable cell raises TypeError
MapCell(x, mapping) ==
    IF x.t \in {"dict", "list"} THEN Exc
    ELSE IF x.t = "str" /\ x.s \in DOMAIN mapping THEN PyStr(mapping[x.s])
    ELSE None

MapColumn(frame, col, mapping) ==
    LET mapped == [r \in 1..Len(frame) |-> MapCell(frame[r][col], mapping)]
    IN  IF \E r \in 1..Len(frame) : IsExc(mapped[r]) THEN Exc
        ELSE PyList(mapped)

\* faulty variant: the first bucket starts at 0, which leaves midnight out
time_of_day_binsFromZero == <<Edge(0), Edge(6), Edge(12), Edge(18), Edge(24)>>

\* lines 220-225
time_of_day_bins == <<Edge(-1), Edge(6), Edge(12), Edge(18), Edge(24)>>
time_of_day_labels == <<"Night", "Morning", "Afternoon", "Evening">>

\* pd.to_datetime(...).dt.hour on one cell: the hour of the day
Hour(x) == IF x.t = "datetime" THEN PyInt(x.h % 24) ELSE Exc

HourColumn(frame) ==
    LET hours == [r \in 1..Len(frame) |-> Hour(frame[r]["timestamp"])]
    IN  IF \E r \in 1..Len(frame) : IsExc(hours[r]) THEN Exc
        ELSE PyList(hours)

\* df[col] = column, on a frame value: a new column next to the existing
\* ones; an exception raised while computing the column propagates
AddColumn(fr, col, column) ==
    IF IsExc(column) THEN Exc
    ELSE PyFrame([r \in 1..Len(fr.rows) |->
                    [c \in Columns(fr.rows) \cup {col} |->
                       IF c = col THEN column.l[r] ELSE fr.rows[r][c]]])

\* lines 188-190
AddTempFeelsDiff(fr) ==
    IF IsExc(fr) \/ ~({"temperature", "feels_like"} \subseteq Columns(fr.rows))
    THEN fr
    ELSE AddColumn(fr, "temp_feels_diff",
                   DiffRounded(fr.rows, "temperature", "feels_like"))

\* lines 192-194
AddTempRange(fr) ==
    IF IsExc(fr) \/ ~({"temp_max", "temp_min"} \subseteq Columns(fr.rows))
    THEN fr
    ELSE AddColumn(fr, "temp_range",
                   DiffRounded(fr.rows, "temp_max", "temp_min"))

\* faulty variant: every record gets the category of the first record
AddTempCategoryOfFirst(fr) ==
    IF IsExc(fr) \/ "temperature" \notin Columns(fr.rows) THEN fr
    ELSE LET column == CutColumn(fr.rows, "temperature", temp_category_bins,
                                 temp_category_labels)
         IN  AddColumn(fr, "temp_category",
                       IF IsExc(column) THEN Exc
                       ELSE PyList([r \in 1..Len(fr.rows) |-> column.l[1]]))

\* lines 196-202
AddTempCategory(fr) ==
    IF IsExc(fr) \/ "temperature" \notin Columns(fr.rows) THEN fr
    ELSE AddColumn(fr, "temp_category",
                   CutColumn(fr.rows, "temperature", temp_category_bins,
                             temp_category_labels))

\* lines 204-216
AddWeatherSeverity(fr) ==
    IF IsExc(fr) \/ "weather_main" \notin Columns(fr.rows) THEN fr
    ELSE AddColumn(fr, "weather_severity",
                   MapColumn(fr.rows, "weather_main", severity_map))

\* lines 218-225
AddTimeOfDay(fr) ==
    IF IsExc(fr) \/ "timestamp" \notin Columns(fr.rows) THEN fr
    ELSE LET withHour == AddColumn(fr, "hour", HourColumn(fr.rows))
         IN  IF IsExc(withHour) THEN Exc
             ELSE AddColumn(withHour, "time_of_day",
                            CutColumn(withHour.rows, "hour", time_of_day_bins,
                                      time_of_day_labels))

\* add_calculated_fields(df) on a non-empty frame: the frame with the
\* derived columns, or Exc when a step raises (nothing catches it); the
\* steps run in the order of lines 188-225
add_calculated_fields(fr) ==
    AddTimeOfDay(AddWeatherSeverity(AddTempCategory(AddTempRange(
        AddTempFeelsDiff(fr)))))

(* ------------------------------ ingestion ------------------------------ *)
\* what requests.get meets: a response with a status code and a body that
\* is JSON text or not, or an exception raised before any response
JsonBody(v) == [t |-> "json", value |-> v]
TextBody == [t |-> "text"]
HttpResponse(status, body) == [kind |-> "response", status |-> status, body |-> body]
HttpRaises(e) == [kind |-> "raises", exc |-> e]

\* the body the API sends for a city it does not know
NotFoundBody == JsonBody(PyDict([cod |-> PyStr("404"),
                                 message |-> PyStr("city not found")]))

StatusCodes == {200, 401, 404, 429, 500}
Responses ==
    {HttpResponse(c, b) : c \in StatusCodes,
                          b \in {JsonBody(sample_data), NotFoundBody,
                                 JsonBody(None), TextBody}}
    \cup {HttpRaises(e) : e \in {"Timeout", "ConnectionError"}}

\* response.json(): the parsed body, or Exc (a JSONDecodeError) when the
\* body is not JSON
Json(resp) == IF resp.body.t = "json" THEN resp.body.value ELSE Exc

\* faulty variant: the body is returned whatever the status code
fetch_weather_dataAnyStatus(resp) ==
    IF resp.kind = "raises" THEN None
    ELSE IF IsExc(Json(resp)) THEN None ELSE Json(resp)

\* the body of fetch_weather_data (lines 32-43) for what requests.get
\* meets: every exception ends in the except clause, which returns None
fetch_weather_data(resp) ==
    IF resp.kind = "raises" THEN None
    ELSE IF resp.status = 200
         THEN IF IsExc(Json(resp)) THEN None ELSE Json(resp)
         ELSE None

\* importing the module compiles the whole file first: line 63, in
\* fetch_all_cities, is  data['weather'][0']['description'] , an
\* unterminated string literal, so the import raises SyntaxError and no
\* function of the module is ever bound
ImportIngestion == Exc

\* from src.ingestion import fetch_weather_data; fetch_weather_data(city)
CallFetchWeatherData(resp) ==
    IF IsExc(ImportIngestion) THEN Exc ELSE fetch_weather_data(resp)

(* ------------------------------- storage ------------------------------- *)
\* The WeatherDatabase object: connection is "none" after __init__ and
\* after a failed connect, "open" after connect, "closed" after
\* disconnect or when the server is lost.  table holds the committed rows
\* of weather_data, pending the rows of the open transaction (psycopg2
\* opens one at the first execute; autocommit is never set).

\* batches handed to insert_weather_data: None, an empty frame, and frames
\* of up to MaxRows records
InsertRecords ==
    {Extract(sample_data, 6),
     Extract(With(sample_data, "name", PyStr("Montreal")), 6)}
InsertBatches ==
    {None} \cup {PyFrame(rows) : rows \in SeqsUpTo(InsertRecords, MaxRows)}

\* lines 70-72: df is None or df.empty
NoData(batch) == IF batch = None THEN TRUE ELSE Len(batch.rows) = 0

\* faulty variant: every executed row is committed at once
ExecuteCommitsRow(tbl, pend, record) ==
    [table |-> tbl \o pend \o <<record>>, pending |-> <<>>]

\* lines 103-105: cursor.execute adds the row to the open transaction
Execute(tbl, pend, record) ==
    [table |-> tbl, pending |-> Append(pend, record)]

\* faulty variant: the message counts the cells of the frame (df.size)
TransformedMessageSize(combined) ==
    [level |-> "info", text |-> "Transformed records",
     records |-> Len(combined) * Cardinality(Columns(combined))]

\* line 169: the one count transform_multiple_cities reports is the number
\* of rows of the combined frame, in an info log line
TransformedMessage(combined) ==
    [level |-> "info", text |-> "Transformed records",
     records |-> Len(combined)]

\* line 172: the error logged when nothing was collected carries no count
NoDataMessage == [level |-> "error", text |-> "No data to transform"]

Init ==
    /\ \/ /\ \/ /\ raw_data_list \in {<<r>> : r \in RawObservations}
                /\ now = 6
             \/ /\ raw_data_list \in SeqsUpTo(BatchItems, MaxBatch)
                /\ now \in StartHours
             \/ /\ raw_data_list \in {<<r>> : r \in DerivedObservations}
                /\ now \in HoursOfDay
          /\ pc = "loop"
          /\ df_in = None
          /\ df = None
          /\ response = None
       \/ /\ raw_data_list = <<>>
          /\ now = 6
          /\ pc = "validate"
          /\ df_in \in ValidateFrames
          /\ df = df_in
          /\ response = None
       \/ /\ raw_data_list = <<>>
          /\ now = 6
          /\ pc = "fetch"
          /\ df_in = None
          /\ df = None
          /\ response \in Responses
       \/ /\ raw_data_list = <<>>
          /\ now = 6
          /\ pc = "db"
          /\ df_in \in InsertBatches
          /\ df = None
          /\ response = None
    /\ round_raises \in BOOLEAN
    /\ df_arg = None
    /\ report = None
    /\ enhanced = None
    /\ ret = None
    /\ connection = "none"
    /\ table = <<>>
    /\ pending = <<>>
    /\ commits = 0
    /\ idx = 0
    /\ all_dataframes = <<>>
    /\ result = None
    /\ ticks = 0
    /\ log = <<>>
    /\ calls = 0

\* one iteration of the loop (lines 161-164) whose call returns a frame
TransformAppend ==
    /\ pc = "loop"
    /\ idx < Len(raw_data_list)
    /\ LET call == transform_weather_data(raw_data_list[idx + 1], now)
       IN  /\ call.df.t = "frame"
           /\ all_dataframes' = Append(all_dataframes, call.df)
           /\ df' = call.df
           /\ log' = call.log
    /\ idx' = idx + 1
    /\ df_in' = raw_data_list[idx + 1]
    /\ UNCHANGED <<raw_data_list, result, pc, now, ticks, calls, round_raises,
                   df_arg, report, enhanced, fetchVars, dbVars>>

\* one iteration of the loop whose call returns None
TransformSkip ==
    /\ pc = "loop"
    /\ idx < Len(raw_data_list)
    /\ LET call == transform_weather_data(raw_data_list[idx + 1], now)
       IN  /\ call.df = None
           /\ df' = None
           /\ log' = call.log
    /\ idx' = idx + 1
    /\ df_in' = raw_data_list[idx + 1]
    /\ UNCHANGED <<raw_data_list, all_dataframes, result, pc, now, ticks,
                   calls, round_raises, df_arg,
                   report, enhanced, fetchVars, dbVars>>

\* the wall clock moves on between two calls
Tick ==
    /\ pc = "loop"
    /\ ticks < MaxTicks
    /\ now' = now + 1
    /\ ticks' = ticks + 1
    /\ UNCHANGED <<raw_data_list, idx, all_dataframes, result, pc,
                   df_in, df_arg, df, log, calls, round_raises,
                   report, enhanced, fetchVars, dbVars>>

\* lines 166-170: at least one frame was collected
CombineFrames ==
    /\ pc = "loop"
    /\ idx = Len(raw_data_list)
    /\ HasData(all_dataframes)
    /\ result' = PyFrame(Concat(all_dataframes))
    /\ report' = TransformedMessage(Concat(all_dataframes))
    /\ pc' = "done"
    /\ log' = <<>>
    /\ UNCHANGED <<raw_data_list, idx, all_dataframes, now, ticks,
                   df_in, df_arg, df, calls, round_raises,
                   enhanced, fetchVars, dbVars>>

\* lines 171-173: nothing was collected
CombineNone ==
    /\ pc = "loop"
    /\ idx = Len(raw_data_list)
    /\ ~HasData(all_dataframes)
    /\ result' = None
    /\ report' = NoDataMessage
    /\ pc' = "done"
    /\ log' = <<"error">>
    /\ UNCHANGED <<raw_data_list, idx, all_dataframes, now, ticks,
                   df_in, df_arg, df, calls, round_raises,
                   enhanced, fetchVars, dbVars>>

\* add_calculated_fields applied to the batch returns the enhanced frame
AddCalculatedFields ==
    /\ pc = "done"
    /\ result # None
    /\ LET call == add_calculated_fields(result)
       IN  /\ ~IsExc(call)
           /\ enhanced' = call
           /\ result' = ArgumentAfterEnhance(result, call)
    /\ pc' = "enhanced"
    /\ UNCHANGED <<raw_data_list, idx, all_dataframes, now, ticks,
                   round_raises, df_in, df_arg, df, log, calls, report,
                   fetchVars, dbVars>>

\* add_calculated_fields raises: nothing in it catches an exception
AddCalculatedFieldsRaises ==
    /\ pc = "done"
    /\ result # None
    /\ IsExc(add_calculated_fields(result))
    /\ pc' = "enhance_raised"
    /\ UNCHANGED <<batchVars, df_in, df_arg, df, log, calls, report, enhanced,
                   fetchVars, dbVars>>

\* a caller imports the ingestion module and calls fetch_weather_data
FetchWeatherData ==
    /\ pc = "fetch"
    /\ ret' = CallFetchWeatherData(response)
    /\ pc' = "fetched"
    /\ UNCHANGED <<batchVars, df_in, df_arg, df, log, calls, report, enhanced,
                   response, dbVars>>

\* db.connect() succeeds (lines 37-46)
ConnectOk ==
    /\ pc = "db"
    /\ connection = "none"
    /\ connection' = "open"
    /\ log' = <<"connected">>
    /\ UNCHANGED <<batchVars, pc, df_in, df_arg, df, calls, report, enhanced,
                   fetchVars, table, pending, commits>>

\* db.connect() fails and returns False (lines 47-49): no connection
ConnectFails ==
    /\ pc = "db"
    /\ connection = "none"
    /\ log # <<"error">>
    /\ log' = <<"error">>
    /\ UNCHANGED <<batchVars, pc, df_in, df_arg, df, calls, report, enhanced,
                   fetchVars, dbVars>>

\* db.disconnect() before the insert (lines 51-57)
Disconnect ==
    /\ pc = "db"
    /\ connection = "open"
    /\ connection' = "closed"
    /\ UNCHANGED <<batchVars, pc, df_in, df_arg, df, log, calls, report,
                   enhanced, fetchVars, table, pending, commits>>

\* insert_weather_data(df) with no data returns 0 at once (lines 70-72)
InsertNoData ==
    /\ pc = "db"
    /\ NoData(df_in)
    /\ ret' = PyInt(0)
    /\ pc' = "db_done"
    /\ UNCHANGED <<batchVars, df_in, df_arg, df, log, calls, report, enhanced,
                   response, dbVars>>

\* insert_weather_data(df) with data enters the try block (lines 74-102)
InsertBegin ==
    /\ pc = "db"
    /\ ~NoData(df_in)
    /\ pc' = "insert"
    /\ UNCHANGED <<batchVars, df_in, df_arg, df, log, calls, report, enhanced,
                   fetchVars, dbVars>>

\* one iteration of the loop of lines 103-105 whose execute returns
ExecuteOk ==
    /\ pc = "insert"
    /\ idx < Len(df_in.rows)
    /\ connection = "open"
    /\ LET after == Execute(table, pending, df_in.rows[idx + 1])
       IN  /\ table' = after.table
           /\ pending' = after.pending
    /\ idx' = idx + 1
    /\ UNCHANGED <<raw_data_list, all_dataframes, result, now, ticks,
                   round_raises, pc, df_in, df_arg, df, log, calls, report,
                   enhanced, fetchVars, connection, commits>>

\* execute raises: the statement is rejected (the connection stays open),
\* the server is lost during it, or there is no open connection at all
\* (cursor is None or closed)
ExecuteRaises ==
    /\ pc = "insert"
    /\ idx < Len(df_in.rows)
    /\ connection' \in IF connection = "open" THEN {"open", "closed"}
                       ELSE {connection}
    /\ pc' = "except"
    /\ UNCHANGED <<batchVars, df_in, df_arg, df, log, calls, report, enhanced,
                   fetchVars, table, pending, commits>>

\* line 108: commit returns; the rows of the transaction are persisted
CommitOk ==
    /\ pc = "insert"
    /\ idx = Len(df_in.rows)
    /\ connection = "open"
    /\ table' = table \o pending
    /\ pending' = <<>>
    /\ commits' = commits + 1
    /\ ret' = PyInt(idx)
    /\ pc' = "db_done"
    /\ UNCHANGED <<batchVars, df_in, df_arg, df, log, calls, report, enhanced,
                   response, connection>>

\* commit raises with the connection still open: the server refused the
\* transaction and has discarded it
CommitRejected ==
    /\ pc = "insert"
    /\ idx = Len(df_in.rows)
    /\ connection = "open"
    /\ pc' = "except"
    /\ UNCHANGED <<batchVars, df_in, df_arg, df, log, calls, report, enhanced,
                   fetchVars, dbVars>>

\* commit raises because the server is lost: the client cannot know
\* whether the transaction was committed before the loss
CommitConnectionLost ==
    /\ pc = "insert"
    /\ idx = Len(df_in.rows)
    /\ connection = "open"
    /\ connection' = "closed"
    /\ table' \in {table, table \o pending}
    /\ pending' = <<>>
    /\ commits' = IF table' = table THEN commits ELSE commits + 1
    /\ pc' = "except"
    /\ UNCHANGED <<batchVars, df_in, df_arg, df, log, calls, report, enhanced,
                   fetchVars>>

\* lines 113-116: the rollback returns, the call logs and returns 0
RollbackOk ==
    /\ pc = "except"
    /\ connection = "open"
    /\ pending' = <<>>
    /\ ret' = PyInt(0)
    /\ log' = <<"error">>
    /\ pc' = "db_done"
    /\ UNCHANGED <<batchVars, df_in, df_arg, df, calls, report, enhanced,
                   response, connection, table, commits>>

\* line 114 raises inside the except clause: connection is None
\* (AttributeError) or closed (InterfaceError); the exception leaves
\* insert_weather_data, and the server has dropped the transaction
RollbackRaises ==
    /\ pc = "except"
    /\ connection \in {"none", "closed"}
    /\ pending' = <<>>
    /\ ret' = Exc
    /\ pc' = "db_raised"
    /\ UNCHANGED <<batchVars, df_in, df_arg, df, log, calls, report, enhanced,
                   response, connection, table, commits>>

\* validate_and_clean applied to the frame the previous call returned (the
\* first time: to the caller's frame df_in); df_arg is the argument of the
\* call, df what it returned
Validate ==
    /\ pc = "validate"
    /\ calls < MaxCalls
    /\ LET call == validate_and_clean(df)
       IN  /\ ~IsExc(call.df)
           /\ df' = call.df
           /\ log' = call.log
           /\ df_arg' = ArgumentAfterValidate(df, call.df)
    /\ calls' = calls + 1
    /\ UNCHANGED <<batchVars, pc, df_in, report, enhanced, fetchVars, dbVars>>

\* validate_and_clean raises: a TypeError from comparing a non-numeric cell
ValidateRaises ==
    /\ pc = "validate"
    /\ calls < MaxCalls
    /\ LET call == validate_and_clean(df)
       IN  /\ IsExc(call.df)
           /\ log' = call.log
           /\ df_arg' = ArgumentAfterValidate(df, call.df)
    /\ pc' = "raised"
    /\ calls' = calls + 1
    /\ UNCHANGED <<batchVars, df, df_in, report, enhanced, fetchVars, dbVars>>

Next == Validate \/ ValidateRaises \/ TransformAppend \/ TransformSkip \/ Tick \/ CombineFrames \/ CombineNone \/ AddCalculatedFields \/ AddCalculatedFieldsRaises \/ FetchWeatherData
        \/ ConnectOk \/ ConnectFails \/ Disconnect \/ InsertNoData
        \/ InsertBegin \/ ExecuteOk \/ ExecuteRaises \/ CommitOk
        \/ CommitRejected \/ CommitConnectionLost \/ RollbackOk
        \/ RollbackRaises

Spec == Init /\ [][Next]_vars

(* ============================== claims ================================= *)
\* a call of transform_weather_data has returned: df_in is the raw
\* observation it was given, df what it returned
Transformed == pc \in {"loop", "done"} /\ idx > 0
Returned == Transformed /\ df # None

\* where each field of the record comes from in the raw observation
SourcePath ==
    [city |-> <<"name">>,
     country_code |-> <<"sys", "country">>,
     latitude |-> <<"coord", "lat">>,
     longitude |-> <<"coord", "lon">>,
     temperature |-> <<"main", "temp">>,
     feels_like |-> <<"main", "feels_like">>,
     temp_min |-> <<"main", "temp_min">>,
     temp_max |-> <<"main", "temp_max">>,
     pressure |-> <<"main", "pressure">>,
     humidity |-> <<"main", "humidity">>,
     weather_main |-> <<"weather", "main">>,
     weather_description |-> <<"weather", "description">>,
     weather_icon |-> <<"weather", "icon">>,
     wind_speed |-> <<"wind", "speed">>,
     wind_direction |-> <<"wind", "deg">>,
     cloudiness |-> <<"clouds", "all">>,
     visibility |-> <<"visibility">>,
     api_timestamp |-> <<"dt">>,
     timezone_offset |-> <<"timezone">>]

\* the container a two-step path goes through (weather: its first element)
Container(raw, key) ==
    IF key = "weather" THEN raw.d[key].l[1] ELSE raw.d[key]

\* the source key of a field is absent from a well-formed observation
SourceAbsent(raw, field) ==
    LET path == SourcePath[field]
    IN  \/ path[1] \notin DOMAIN raw.d
        \/ /\ Len(path) = 2
           /\ path[2] \notin DOMAIN Container(raw, path[1]).d

\* observations that differ from a complete one only by absent keys
OnlyKeysAbsent == RawTopAbsent \cup RawNestedAbsent

\* C1: a mapping with any subset of the optional keys absent (top-level or
\* nested) yields exactly one record, never None; each field whose source
\* key is absent is null, and city is "Unknown" when name is absent.
C1_AbsentKeysGiveNulls ==
    (Transformed /\ df_in \in OnlyKeysAbsent) =>
        /\ df # None
        /\ Len(df.rows) = 1
        /\ \A f \in DOMAIN SourcePath :
              SourceAbsent(df_in, f) =>
                 df.rows[1][f] = (IF f = "city" THEN PyStr("Unknown") ELSE None)

C1_Witness ==
    /\ Transformed
    /\ df_in = EmptyDict
    /\ df # None
    /\ df.rows[1]["city"] = PyStr("Unknown")
    /\ df.rows[1]["temperature"] = None
    /\ df.rows[1]["weather_main"] = None

\* C2: a weather key holding an empty list still yields a record, with
\* weather_main, weather_description and weather_icon null; a non-empty
\* list gives the three fields of its element at index 0.
WeatherFields == [weather_main |-> "main",
                  weather_description |-> "description",
                  weather_icon |-> "icon"]

C2_EmptyWeatherListGivesNulls ==
    (Transformed /\ df_in \in RawWeatherShapes
       /\ df_in.d["weather"].t = "list") =>
        LET weather == df_in.d["weather"].l
        IN  IF Len(weather) = 0
            THEN /\ df # None
                 /\ \A f \in DOMAIN WeatherFields : df.rows[1][f] = None
            ELSE (df # None) =>
                 \A f \in DOMAIN WeatherFields :
                    df.rows[1][f] = Get(weather[1], WeatherFields[f], None)

\* C3: transform_weather_data yields no record only if the raw input is
\* not a mapping; every mapping, whatever its values (a null or
\* non-mapping parent container, a non-numeric measurement), yields a
\* record.  Stated for the observations whose keys are all present, so
\* that only the values decide.
C3_EveryMappingGivesRecord ==
    (Transformed /\ df_in \in RawBadParent \cup RawValues) => df # None

\* a call of validate_and_clean has returned: df_arg is the frame it was
\* given, df the frame it returned, log the warnings of that call
Validated == pc = "validate" /\ calls >= 1
RowIn == df_arg.rows[1]
RowOut == df.rows[1]

\* a numeric cell lies outside the closed range [lo, hi] (whole units)
Outside(x, lo, hi) ==
    IsNumber(x) /\ (Milli(x) < lo * 1000 \/ Milli(x) > hi * 1000)

\* y is x rounded to 2 decimals, stated without the rounding operator: an
\* int is untouched, a float moves to a hundredth at most 0.005 away
RoundedFrom(y, x) ==
    IF x.t = "float"
    THEN y.t = "float" /\ y.v % 10 = 0 /\ y.v - x.v <= 5 /\ x.v - y.v <= 5
    ELSE y = x

\* C4 as stated: an out-of-range temperature gives is_valid = false and the
\* temperature value itself is not altered.
C4_TemperatureNotAltered ==
    (Validated /\ Outside(RowIn["temperature"], -50, 60)) =>
        /\ RowOut["is_valid"] = PyBool(FALSE)
        /\ RowOut["temperature"] = RowIn["temperature"]

\* C4 amended: an out-of-range temperature gives is_valid = false and the
\* temperature is not clamped: it is altered only by the rounding to 2
\* decimals.
C4_TemperatureOnlyRounded ==
    (Validated /\ Outside(RowIn["temperature"], -50, 60)) =>
        /\ RowOut["is_valid"] = PyBool(FALSE)
        /\ RoundedFrom(RowOut["temperature"], RowIn["temperature"])

C4_Witness ==
    /\ Validated
    /\ RowIn["temperature"] = PyFloat(100456)
    /\ RowIn["is_valid"] = PyBool(TRUE)
    /\ RowOut["temperature"] = PyFloat(100460)
    /\ RowOut["is_valid"] = PyBool(FALSE)

Warned(tag) == \E i \in 1..Len(log) : log[i] = tag

\* the temperature of the raw observation a returned record was made from
RawTemperature ==
    IF "main" \in DOMAIN df_in.d /\ "temp" \in DOMAIN df_in.d["main"].d
    THEN df_in.d["main"].d["temp"]
    ELSE None

\* C5 as stated: in a record produced by transform_weather_data is_valid is
\* false iff the record's temperature is present and strictly outside
\* [-50, 60]; validate_and_clean never turns a false is_valid back to true.
C5_InvalidIffRecordTemperatureOutside ==
    /\ Returned =>
          (RowOut["is_valid"] = PyBool(FALSE)
             <=> Outside(RowOut["temperature"], -50, 60))
    /\ (Validated /\ RowIn["is_valid"] = PyBool(FALSE)) =>
          RowOut["is_valid"] = PyBool(FALSE)

\* C5 amended: is_valid is false iff the temperature taken from the
\* observation, as it is before the rounding to 2 decimals, is present and
\* strictly outside [-50, 60] (so -50, 60, a null temperature and any
\* humidity, pressure or wind speed leave it true); validate_and_clean
\* never turns a false is_valid back to true.
C5_InvalidIffRawTemperatureOutside ==
    /\ Returned =>
          /\ RowOut["is_valid"] \in {PyBool(TRUE), PyBool(FALSE)}
          /\ RowOut["is_valid"] = PyBool(FALSE)
                <=> Outside(RawTemperature, -50, 60)
    /\ (Validated /\ RowIn["is_valid"] = PyBool(FALSE)) =>
          RowOut["is_valid"] = PyBool(FALSE)

C5_Witness ==
    /\ Returned
    /\ RawTemperature = PyInt(60)
    /\ df_in.d["main"].d["humidity"] = PyInt(150)
    /\ df_in.d["main"].d["pressure"] = PyInt(1200)
    /\ df_in.d["wind"].d["speed"] = PyFloat(-3000)
    /\ RowOut["is_valid"] = PyBool(TRUE)

\* C6: with humidity present the output humidity is in [0, 100]: below 0
\* becomes 0, above 100 becomes 100, a value in [0, 100] is unchanged, and
\* the humidity warning is logged exactly when a clamp happened.
C6_HumidityClamped ==
    (Validated /\ IsNumber(RowIn["humidity"])) =>
        LET hin == RowIn["humidity"]
            hout == RowOut["humidity"]
        IN  /\ IsNumber(hout)
            /\ Milli(hout) >= 0 /\ Milli(hout) <= 100000
            /\ Milli(hin) < 0 => Milli(hout) = 0
            /\ Milli(hin) > 100000 => Milli(hout) = 100000
            /\ ~Outside(hin, 0, 100) => hout = hin
            /\ Warned("humidity") <=> Outside(hin, 0, 100)

C6_Witness ==
    /\ Validated
    /\ RowIn["humidity"] = PyInt(150)
    /\ RowOut["humidity"] = PyInt(100)
    /\ Warned("humidity")

\* C7: with wind_speed present the output wind_speed is >= 0: a negative
\* value becomes 0 with a warning, a non-negative value is not clamped
\* (it is only rounded) and raises no warning.
C7_WindSpeedNonNegative ==
    (Validated /\ IsNumber(RowIn["wind_speed"])) =>
        LET win == RowIn["wind_speed"]
            wout == RowOut["wind_speed"]
        IN  /\ IsNumber(wout)
            /\ Milli(wout) >= 0
            /\ Milli(win) < 0 => (Milli(wout) = 0 /\ Warned("wind_speed"))
            /\ Milli(win) >= 0 =>
                  (RoundedFrom(wout, win) /\ ~Warned("wind_speed"))

C7_Witness ==
    /\ Validated
    /\ RowIn["wind_speed"] = PyFloat(-3000)
    /\ Milli(RowOut["wind_speed"]) = 0
    /\ Warned("wind_speed")

\* C8: validate_and_clean changes at most is_valid, humidity, wind_speed
\* and the seven rounded columns; every other column is returned as given,
\* pressure too when it is outside [900, 1100], where only a warning is
\* logged.
MayChange == {"is_valid", "humidity", "wind_speed"} \cup decimal_columns

C8_OtherFieldsUnchanged ==
    Validated =>
        /\ DOMAIN RowOut = DOMAIN RowIn
        /\ \A c \in DOMAIN RowIn \ MayChange : RowOut[c] = RowIn[c]
        /\ Warned("pressure") <=> Outside(RowIn["pressure"], 900, 1100)

C8_Witness ==
    /\ Validated
    /\ RowIn["pressure"] = PyInt(1200)
    /\ RowOut["pressure"] = PyInt(1200)
    /\ Warned("pressure")
    /\ RowOut["api_timestamp"] = PyInt(1705776000)
    /\ RowOut["timezone_offset"] = PyInt(-18000)

\* C9: validate_and_clean is idempotent: applied to its own output it
\* returns that output unchanged in every field, and this second
\* application logs no humidity or wind_speed warning.
C9_Idempotent ==
    (Validated /\ calls >= 2) =>
        /\ df = df_arg
        /\ ~Warned("humidity")
        /\ ~Warned("wind_speed")

\* the second application ran on a record the first one had flagged,
\* clamped and rounded
C9_Witness ==
    /\ Validated /\ calls = 2
    /\ df_in.rows[1]["temperature"] = PyFloat(60004)
    /\ df_in.rows[1]["humidity"] = PyInt(150)
    /\ df_in.rows[1]["wind_speed"] = PyFloat(-3000)
    /\ df_in.rows[1]["is_valid"] = PyBool(TRUE)
    /\ df = df_arg
    /\ RowOut["temperature"] = PyFloat(60000)
    /\ RowOut["is_valid"] = PyBool(FALSE)

\* an observation normalizes successfully (the clock reading plays no part)
Succeeds(raw) == transform_weather_data(raw, 0).df # None

\* a record without its creation time
Untimed(row) == [row EXCEPT !["timestamp"] = None]

\* the validated records of the observations that succeed, in input order
RECURSIVE ExpectedBatch(_)
ExpectedBatch(raws) ==
    IF Len(raws) = 0 THEN <<>>
    ELSE IF Succeeds(raws[1])
         THEN <<Untimed(transform_weather_data(raws[1], 0).df.rows[1])>>
              \o ExpectedBatch(Tail(raws))
         ELSE ExpectedBatch(Tail(raws))

\* the records of what transform_multiple_cities returned (None: none)
BatchRows == IF result = None THEN <<>> ELSE result.rows

\* C10: the batch holds exactly one validated record per observation that
\* normalized successfully, in input order, and none for a failed one;
\* after the first k inputs the accumulated collection has as many
\* records as there were successes among those k.
C10_BatchKeepsSuccessesInOrder ==
    /\ pc \in {"loop", "done"} =>
          /\ Len(all_dataframes) =
                Cardinality({j \in 1..idx : Succeeds(raw_data_list[j])})
          /\ \A j \in 1..Len(all_dataframes) : Len(all_dataframes[j].rows) = 1
    /\ pc = "done" =>
          [j \in 1..Len(BatchRows) |-> Untimed(BatchRows[j])]
             = ExpectedBatch(raw_data_list)

C10_Witness ==
    /\ pc = "done"
    /\ Len(raw_data_list) = 3
    /\ raw_data_list[1].t = "dict"
    /\ raw_data_list[2] = None
    /\ raw_data_list[3].t = "dict"
    /\ result # None
    /\ Len(result.rows) = 2
    /\ result.rows[1]["city"] = PyStr("Montreal")
    /\ result.rows[2]["city"] = PyStr("Toronto")

\* the call of transform_weather_data on item j returns to the loop, with a
\* frame or with None, instead of raising
ReturnsNormally(j) ==
    LET call == transform_weather_data(raw_data_list[j], now)
    IN  call.df = None \/ call.df.t = "frame"

\* C11: no per-observation error aborts a batch: whatever mix of malformed
\* and well-formed items the sequence holds, the call on the next item
\* returns to the loop (so the loop can always step), every item before
\* the current one was attempted, nothing is raised to the caller, and the
\* function finishes only after the last item.
C11_NoItemAbortsBatch ==
    /\ pc = "loop" =>
          /\ idx <= Len(raw_data_list)
          /\ idx < Len(raw_data_list) => ReturnsNormally(idx + 1)
    /\ pc = "done" =>
          /\ idx = Len(raw_data_list)
          /\ result = None \/ result.t = "frame"

\* a batch whose first item is malformed and whose later items were
\* still transformed
C11_Witness ==
    /\ pc = "done"
    /\ Len(raw_data_list) = 3
    /\ raw_data_list[1] = None
    /\ raw_data_list[2].t = "dict"
    /\ raw_data_list[3].t = "dict"
    /\ ~Succeeds(raw_data_list[2])
    /\ idx = 3
    /\ result # None
    /\ Len(result.rows) = 1

\* the number of observations of the sequence that transform successfully
Successes == Cardinality({j \in 1..Len(raw_data_list) : Succeeds(raw_data_list[j])})

Enhanced == pc = "enhanced"

\* the category the claim gives a temperature, in thousandths
CategoryOf(m) ==
    IF m <= 0 THEN "Freezing"
    ELSE IF m <= 10000 THEN "Cold"
    ELSE IF m <= 20000 THEN "Mild"
    ELSE IF m <= 30000 THEN "Warm"
    ELSE "Hot"

\* C13: add_calculated_fields assigns temp_category from temperature with
\* right-closed buckets (t <= 0 Freezing, 0 < t <= 10 Cold, 10 < t <= 20
\* Mild, 20 < t <= 30 Warm, t > 30 Hot), exactly one category for every
\* non-null temperature, and a null category for a null temperature: a
\* call on a batch always returns, and every record of what it returns
\* carries the category of its temperature.
C13_TempCategoryBuckets ==
    /\ pc = "done" /\ result # None => ~IsExc(add_calculated_fields(result))
    /\ Enhanced =>
          \A r \in 1..Len(result.rows) :
             LET t == result.rows[r]["temperature"]
                 c == enhanced.rows[r]["temp_category"]
             IN  IF t.t = "null" THEN c = None
                 ELSE c = PyStr(CategoryOf(CellMilli(t)))

\* C13 for the temperatures that are present
C13_TempCategoryOfNumbers ==
    Enhanced =>
       \A r \in 1..Len(result.rows) :
          LET t == result.rows[r]["temperature"]
          IN  t.t # "null" =>
                 enhanced.rows[r]["temp_category"] = PyStr(CategoryOf(CellMilli(t)))

\* a boundary temperature sits in the lower bucket
C13_Witness ==
    /\ Enhanced
    /\ result.rows[1]["temperature"] = PyInt(10)
    /\ enhanced.rows[1]["temp_category"] = PyStr("Cold")

\* the severity the claim's table gives a condition, None when the table
\* has no entry for it
SeverityOf(w) ==
    IF w = PyStr("Clear") THEN PyStr("Good")
    ELSE IF w \in {PyStr("Clouds"), PyStr("Drizzle"), PyStr("Mist")}
    THEN PyStr("Fair")
    ELSE IF w \in {PyStr("Rain"), PyStr("Snow"), PyStr("Fog")}
    THEN PyStr("Poor")
    ELSE IF w = PyStr("Thunderstorm") THEN PyStr("Severe")
    ELSE None

\* C14: add_calculated_fields assigns weather_severity by the fixed table
\* Clear->Good, Clouds->Fair, Rain->Poor, Drizzle->Fair,
\* Thunderstorm->Severe, Snow->Poor, Mist->Fair, Fog->Poor; a weather_main
\* that is null or not one of the eight keys gets a null severity, and
\* the lookup raises nothing.
C14_WeatherSeverityTable ==
    /\ pc = "done" /\ result # None =>
          ~IsExc(MapColumn(result.rows, "weather_main", severity_map))
    /\ Enhanced =>
          \A r \in 1..Len(result.rows) :
             enhanced.rows[r]["weather_severity"]
                = SeverityOf(result.rows[r]["weather_main"])

\* a record without a weather condition got its derived fields, with a
\* null severity
C14_Witness ==
    /\ Enhanced
    /\ result.rows[1]["weather_main"] = None
    /\ enhanced.rows[1]["weather_severity"] = None
    /\ enhanced.rows[1]["temp_category"] = PyStr("Cold")

\* a condition the table does not hold (also a key in another case) and
\* one it holds
C14_WitnessUnmapped ==
    /\ Enhanced
    /\ result.rows[1]["weather_main"] \in {PyStr("Haze"), PyStr("clear")}
    /\ enhanced.rows[1]["weather_severity"] = None
C14_WitnessDrizzle ==
    /\ Enhanced
    /\ result.rows[1]["weather_main"] = PyStr("Drizzle")
    /\ enhanced.rows[1]["weather_severity"] = PyStr("Fair")

\* the label the claim gives an hour of the day
TimeOfDayOf(h) ==
    IF h \in 0..6 THEN "Night"
    ELSE IF h \in 7..12 THEN "Morning"
    ELSE IF h \in 13..18 THEN "Afternoon"
    ELSE "Evening"

\* C15: add_calculated_fields sets hour to the hour of the record's
\* timestamp and time_of_day by the buckets (-1,6] Night, (6,12] Morning,
\* (12,18] Afternoon, (18,24] Evening: every hour 0..23 gets exactly one
\* non-null label, 0-6 Night, 7-12 Morning, 13-18 Afternoon, 19-23 Evening.
C15_HourAndTimeOfDay ==
    Enhanced =>
       \A r \in 1..Len(result.rows) :
          LET h == result.rows[r]["timestamp"].h % 24
          IN  /\ h \in 0..23
              /\ enhanced.rows[r]["hour"] = PyInt(h)
              /\ enhanced.rows[r]["time_of_day"] = PyStr(TimeOfDayOf(h))

\* a record made at midnight is a Night record
C15_Witness ==
    /\ Enhanced
    /\ result.rows[1]["timestamp"].h % 24 = 0
    /\ enhanced.rows[1]["hour"] = PyInt(0)
    /\ enhanced.rows[1]["time_of_day"] = PyStr("Night")

\* every hour of the day and every boundary of the buckets occurs
C15_WitnessHours ==
    /\ Enhanced
    /\ now = 24
    /\ Len(result.rows) = 2
    /\ enhanced.rows[1]["hour"] = PyInt(23)
    /\ enhanced.rows[1]["time_of_day"] = PyStr("Evening")
    /\ enhanced.rows[2]["hour"] = PyInt(0)
    /\ enhanced.rows[2]["time_of_day"] = PyStr("Night")

\* the 22 fields of a record of the transform stage (lines 39-82)
PrimaryFields == DOMAIN Extract(sample_data, 0)

DerivedFields == {"temp_feels_diff", "temp_range", "temp_category",
                  "weather_severity", "hour", "time_of_day"}

\* C16: add_calculated_fields only appends fields: every primary field of
\* every record (is_valid and the clamped humidity and wind_speed
\* included) keeps its value, the number and the order of the records is
\* unchanged, the added fields are the derived ones, and the derived
\* fields of a record are those the function gives that record alone.
C16_OnlyAppendsFields ==
    Enhanced =>
       /\ Len(enhanced.rows) = Len(result.rows)
       /\ \A r \in 1..Len(result.rows) :
             /\ DOMAIN result.rows[r] = PrimaryFields
             /\ DOMAIN enhanced.rows[r] = PrimaryFields \cup DerivedFields
             /\ \A c \in PrimaryFields :
                   enhanced.rows[r][c] = result.rows[r][c]
             /\ LET alone == add_calculated_fields(PyFrame(<<result.rows[r]>>))
                IN  /\ ~IsExc(alone)
                    /\ enhanced.rows[r] = alone.rows[1]

\* a batch of a valid and a flagged, clamped record, in their input order
\* and with different derived fields
C16_Witness ==
    /\ Enhanced
    /\ Len(enhanced.rows) = 2
    /\ enhanced.rows[1]["city"] = PyStr("Toronto")
    /\ enhanced.rows[1]["temp_category"] = PyStr("Cold")
    /\ enhanced.rows[2]["city"] = PyStr("Montreal")
    /\ enhanced.rows[2]["is_valid"] = PyBool(FALSE)
    /\ enhanced.rows[2]["humidity"] = PyInt(100)
    /\ enhanced.rows[2]["wind_speed"] = PyInt(0)
    /\ enhanced.rows[2]["temp_category"] = PyStr("Hot")
    /\ enhanced.rows[2]["temp_feels_diff"] = PyFloat(96160)

\* what the claim allows fetch_weather_data to give back for a response
FollowsStatus(resp, value) ==
    /\ ~IsExc(value)
    /\ resp.kind = "raises" => value = None
    /\ resp.kind = "response" /\ resp.status # 200 => value = None
    /\ value # None =>
          /\ resp.kind = "response"
          /\ resp.status = 200
          /\ resp.body = JsonBody(value)

\* C17: fetch_weather_data returns the parsed response body only when the
\* HTTP status code is 200; for any other status and for any exception
\* raised by the request it returns None, and it raises nothing to the
\* caller.
C17_FetchReturnsBodyOnlyOn200 ==
    pc = "fetched" => FollowsStatus(response, ret)

\* C17 for the function body alone: what lines 32-43 compute for each
\* response follows the claim
C17_BodyFollowsStatus ==
    response # None => FollowsStatus(response, fetch_weather_data(response))

\* the call for an unknown city has ended
C17_Witness ==
    /\ pc = "fetched"
    /\ response = HttpResponse(404, NotFoundBody)

C18_WitnessEnhance ==
    /\ Enhanced
    /\ DOMAIN result.rows[1] = PrimaryFields
    /\ "temp_category" \in DOMAIN enhanced.rows[1]

\* C19: transform_multiple_cities returns None instead of a batch exactly
\* when no observation of the input sequence transformed successfully (an
\* empty sequence or one in which every item fails); whenever at least one
\* observation succeeds it returns a non-empty batch.
C19_NoneIffNoSuccess ==
    pc = "done" =>
       /\ result = None <=> Successes = 0
       /\ Successes > 0 => result.t = "frame" /\ Len(result.rows) >= 1

\* a sequence of observations that all fail gives None, not an empty batch
C19_Witness ==
    /\ pc = "done"
    /\ Len(raw_data_list) = 2
    /\ raw_data_list[1] = None
    /\ raw_data_list[2].t = "dict"
    /\ Successes = 0
    /\ result = None

\* the empty sequence gives None
C19_WitnessEmpty ==
    pc = "done" /\ raw_data_list = <<>> /\ result = None

\* the states of a WeatherDatabase object and of its insert_weather_data
Storing == pc \in {"db", "insert", "except", "db_done", "db_raised"}

\* a call of insert_weather_data has ended, by returning or by raising
InsertEnded == pc \in {"db_done", "db_raised"}

\* the rows of the batch handed to insert_weather_data (none for None)
BatchOf(batch) == IF batch = None THEN <<>> ELSE batch.rows

\* C20 as stated: insert_weather_data is all-or-nothing for a batch:
\* either every row is executed and committed in a single commit and the
\* call returns the number of rows, or, if an execute or the commit
\* raises, the transaction is rolled back, no row of the batch is
\* persisted and the call returns 0; a null or empty batch returns 0
\* without touching the connection.
C20_AllOrNothingReturnsCount ==
    InsertEnded =>
       \/ /\ ~NoData(df_in)
          /\ ret = PyInt(Len(df_in.rows))
          /\ idx = Len(df_in.rows)
          /\ commits = 1
          /\ table = df_in.rows
       \/ /\ ret = PyInt(0)
          /\ table = <<>>
          /\ commits = 0
          /\ NoData(df_in) => idx = 0

\* C20 amended: the rows of a batch are persisted together by one commit
\* or not at all; the call returns the number of rows after that commit;
\* when an execute or the commit raises and the rollback succeeds it
\* returns 0 with no row persisted; when the rollback itself raises
\* (connection never opened, closed or lost) that exception reaches the
\* caller; a null or empty batch returns 0 without any execute, commit or
\* rollback.
C20_AtomicBatch ==
    Storing =>
    /\ table \in {<<>>, BatchOf(df_in)}
    /\ commits \in {0, 1}
    /\ table # <<>> => commits = 1
    /\ pc = "db_done" =>
          \/ /\ ~NoData(df_in)
             /\ ret = PyInt(Len(df_in.rows))
             /\ idx = Len(df_in.rows)
             /\ commits = 1
             /\ table = df_in.rows
          \/ /\ ret = PyInt(0)
             /\ table = <<>>
             /\ commits = 0
    /\ pc = "db_raised" =>
          /\ ret = Exc
          /\ connection \in {"none", "closed"}
          /\ ~NoData(df_in)
    /\ NoData(df_in) =>
          /\ pc \in {"db", "db_done"}
          /\ idx = 0 /\ pending = <<>> /\ commits = 0

\* the second row of a batch is rejected after the first was executed:
\* the rollback leaves nothing of the batch and the call returns 0
C20_Witness ==
    /\ pc = "db_done"
    /\ connection = "open"
    /\ df_in # None
    /\ Len(df_in.rows) = 2
    /\ idx = 1
    /\ ret = PyInt(0)
    /\ table = <<>>
    /\ pending = <<>>

\* insert_weather_data on an object that was never connected raises
C20_WitnessRaises ==
    /\ pc = "db_raised"
    /\ connection = "none"
    /\ ret = Exc

\* a whole batch committed at once
C20_WitnessCommitted ==
    /\ pc = "db_done"
    /\ df_in # None
    /\ ret = PyInt(2)
    /\ table = df_in.rows
    /\ commits = 1

====
